---- MODULE Spec2Model ----
(***************************************************************************)
(* A model of src/pkg/api/customization/catalog/store.go.  The file holds  *)
(* two packages:                                                           *)
(*   - package catalog: the template store, whose Transformer adds the     *)
(*     computed versionLinks to every catalog-template resource;           *)
(*   - package alert: the hooks that seed the precanned alert groups and   *)
(*     rules of a cluster or project, and the Windows node trigger.        *)
(* The first part of the module models package catalog (specification      *)
(* SpecCatalog), the second part package alert (specification Spec).       *)
(***************************************************************************)
EXTENDS Integers, Sequences, FiniteSets, Bags, TLC

VARIABLES
    \* ---- package catalog ----
    serverVersion,          \* settings.ServerVersion
    templateVersionStore,   \* CatalogTemplateVersion objects of the management store
    templateVersionLister,  \* what ts.CatalogTemplateVersionLister (the informer index) holds
    resource,               \* the catalog template the proxy store returns
    response,               \* what the Transformer returned for it (NoResponse: nothing yet)
    checkLog,               \* the calls of templateVersionForRancherVersion made by the last Transformer
    \* ---- package alert ----
    entries,                \* the package variable `entries` (the static table)
    clusterAlertGroups,     \* bag of the ClusterAlertGroup objects of the store
    clusterAlertRules,      \* bag of the ClusterAlertRule objects of the store
    projectAlertGroups,     \* bag of the ProjectAlertGroup objects of the store
    projectAlertRules,      \* bag of the ProjectAlertRule objects of the store
    inv,                    \* the invocations of the hooks, one record per worker:
                            \*   hook, pc            the hook and where it stands
                            \*   clusterName, obj    its cluster and its argument
                            \*   i, j                the table entry and rule it is at
                            \*   err                 the answer of its last lister Get
                            \*   windowsNodes        the nodes its List returned
                            \*   ret                 what it returned (obj <<>>: nil)
                            \*   listErr, createErr  the answers of Sync's List and Create
                            \*   nGet                lister Gets it has issued
                            \*   nCreate             Creates a project or Sync hook has issued
    warnings,               \* number of logrus.Warnf lines written
    failures,               \* how many more store or lister calls may fail
    maxRunning,             \* how many invocations the controllers run at once
    clusters                \* the clusters the hooks are registered for

catalogVars == <<serverVersion, templateVersionStore, templateVersionLister,
                 resource, response, checkLog>>
storeVars == <<clusterAlertGroups, clusterAlertRules, projectAlertGroups, projectAlertRules>>
alertVars == <<entries, storeVars, inv, warnings, failures, maxRunning, clusters>>
vars == <<catalogVars, alertVars>>

(***************************************************************************)
(*                          package catalog                                *)
(***************************************************************************)

\* ---- bounds of the catalog model ----
MaxVersions == 2        \* longest versions list of a template
MaxRevision == 10       \* largest revision number of a version entry

\* ---- strings ----
RECURSIVE IndexFrom(_, _, _)
\* strings.Index from position i: the first position >= i where sub occurs in s, 0 if none
IndexFrom(s, sub, i) ==
    IF i + Len(sub) - 1 > Len(s) THEN 0
    ELSE IF SubSeq(s, i, i + Len(sub) - 1) = sub THEN i
    ELSE IndexFrom(s, sub, i + 1)

Digit(d) ==
    CASE d = 0 -> "0" [] d = 1 -> "1" [] d = 2 -> "2" [] d = 3 -> "3" [] d = 4 -> "4"
      [] d = 5 -> "5" [] d = 6 -> "6" [] d = 7 -> "7" [] d = 8 -> "8" [] d = 9 -> "9"

RECURSIVE FormatNat(_)
FormatNat(n) == IF n < 10 THEN Digit(n) ELSE FormatNat(n \div 10) \o Digit(n % 10)

\* strconv.FormatInt(v, 10)
FormatInt(v) == IF v < 0 THEN "-" \o FormatNat(-v) ELSE FormatNat(v)

\* fmt.Sprintf("%v-%v", a, b)
SprintfDash(a, b) == a \o "-" \o b

\* ---- the Go map[string]interface{} built by extractVersionLinks ----
\* A map is a set of <<key, value>> pairs; nil tells the nil map from the empty one.
EmptyMap == [nil |-> FALSE, pairs |-> {}]
NilMap == [nil |-> TRUE, pairs |-> {}]

\* r[k] = v
MapSet(r, k, v) == [r EXCEPT !.pairs = {p \in @ : p[1] # k} \cup {<<k, v>>}]

MapKeys(r) == {p[1] : p \in r.pairs}


\* ---- the values the model draws from ----
GlobalNamespace == "cattle-global-data"
TemplateID == "cattle-global-data:library-wordpress"
VersionStrings == {"1.0.0", "1.1.0"}
ServerVersions == {"dev", "v2.4.0"}

\* The externalId the catalog controller stores with a version of the template.
ExternalIDOf(version) == "catalog://?catalog=library&template=wordpress&version=" \o version
\* An externalId url.Parse rejects (invalid escape in the host).
MalformedExternalID == "catalog://%zz/?catalog=library&template=wordpress&version=1.0.0"
ExternalIDs == {ExternalIDOf(v) : v \in VersionStrings} \cup {MalformedExternalID}

\* The elements resource["versions"] can hold: "version" and "externalId" are strings,
\* "revision" is an int64 or absent (hasRevision = FALSE), as the proxy store decodes
\* them.  The externalId is the one of the version, or one url.Parse rejects.
VersionEntries ==
    {[version |-> v, hasRevision |-> h[1], revision |-> h[2], externalId |-> IF x = "own" THEN ExternalIDOf(v) ELSE MalformedExternalID] :
        v \in VersionStrings,
        h \in {<<FALSE, 0>>, <<TRUE, 0>>, <<TRUE, MaxRevision>>},
        x \in {"own", "malformed"}}

\* The CatalogTemplateVersion objects the catalog controller can store for the
\* template: version 1.0.0 without a rancher version range or with RancherMaxVersion
\* v2.3.0, version 1.1.0 without a range.
TemplateVersionName(v) == SprintfDash(SprintfDash("library", "wordpress"), v)
TemplateVersionObjects ==
    {[Namespace |-> GlobalNamespace, Name |-> TemplateVersionName(v),
      RancherMinVersion |-> "", RancherMaxVersion |-> m] :
        v \in VersionStrings, m \in {"", "v2.3.0"}}
    \ {[Namespace |-> GlobalNamespace, Name |-> TemplateVersionName("1.1.0"),
        RancherMinVersion |-> "", RancherMaxVersion |-> "v2.3.0"]}

NoResponse == [present |-> FALSE, versionLinks |-> NilMap]

\* ---- pkg/catalog/utils, pkg/controllers/user/helm/common (not in src/) ----
\* catUtil.ReleaseServerVersion: dev, master, "" and *-head builds are no releases
ReleaseServerVersion(v) ==
    ~ (v \in {"dev", "master", ""}
       \/ (Len(v) >= 5 /\ SubSeq(v, Len(v) - 4, Len(v)) = "-head"))

HexDigits == {"0", "1", "2", "3", "4", "5", "6", "7", "8", "9",
              "a", "b", "c", "d", "e", "f", "A", "B", "C", "D", "E", "F"}

\* url.Parse fails on an invalid percent escape before the query
URLParseFails(s) ==
    LET q == IndexFrom(s, "?", 1)
        head == IF q = 0 THEN s ELSE SubSeq(s, 1, q - 1)
        pc == IndexFrom(head, "%", 1)
    IN  /\ pc # 0
        /\ \/ pc + 2 > Len(head)
           \/ SubSeq(head, pc + 1, pc + 1) \notin HexDigits
           \/ SubSeq(head, pc + 2, pc + 2) \notin HexDigits

\* values.Query().Get(key)
QueryGet(s, key) ==
    LET q == IndexFrom(s, "?", 1)
        a == IF q = 0 THEN 0 ELSE IndexFrom(s, "?" \o key \o "=", q)
        b == IF q = 0 THEN 0 ELSE IndexFrom(s, "&" \o key \o "=", q)
        at == IF a # 0 THEN a ELSE b
        from == at + Len(key) + 2
        amp == IF at = 0 THEN 0 ELSE IndexFrom(s, "&", from)
        to == IF amp = 0 THEN Len(s) ELSE amp - 1
    IN  IF at = 0 THEN "" ELSE SubSeq(s, from, to)

\* hcommon.ParseExternalID: (templateVersionID, namespace, err)
ParseExternalID(externalID) ==
    IF URLParseFails(externalID)
    THEN [templateVersionID |-> "", namespace |-> "", err |-> TRUE]
    ELSE LET catalogWithNamespace == QueryGet(externalID, "catalog")
             slash == IndexFrom(catalogWithNamespace, "/", 1)
             ns == IF slash > 1 THEN SubSeq(catalogWithNamespace, 1, slash - 1)
                   ELSE GlobalNamespace
             catalog == IF slash > 1
                        THEN SubSeq(catalogWithNamespace, slash + 1, Len(catalogWithNamespace))
                        ELSE catalogWithNamespace
         IN  [templateVersionID |->
                  SprintfDash(SprintfDash(catalog, QueryGet(externalID, "template")),
                              QueryGet(externalID, "version")),
              namespace |-> ns, err |-> FALSE]

DigitVal(c) ==
    CASE c = "0" -> 0 [] c = "1" -> 1 [] c = "2" -> 2 [] c = "3" -> 3 [] c = "4" -> 4
      [] c = "5" -> 5 [] c = "6" -> 6 [] c = "7" -> 7 [] c = "8" -> 8 [] c = "9" -> 9

RECURSIVE ParseNat(_)
ParseNat(s) ==
    IF s = "" THEN 0
    ELSE 10 * ParseNat(SubSeq(s, 1, Len(s) - 1)) + DigitVal(SubSeq(s, Len(s), Len(s)))

\* semver.Parse of "vMAJOR.MINOR.PATCH", as one number that orders the versions
SemverParse(v) ==
    LET s == IF Len(v) > 0 /\ Head(v) = "v" THEN Tail(v) ELSE v
        d1 == IndexFrom(s, ".", 1)
        d2 == IndexFrom(s, ".", d1 + 1)
    IN  (ParseNat(SubSeq(s, 1, d1 - 1)) * 1000 + ParseNat(SubSeq(s, d1 + 1, d2 - 1))) * 1000
        + ParseNat(SubSeq(s, d2 + 1, Len(s)))

\* catUtil.ValidateRancherVersion(template): TRUE when it returns an error, that is
\* when the server is a release outside the template version's rancher version range
ValidateRancherVersionFails(template) ==
    /\ ReleaseServerVersion(serverVersion)
    /\ \/ /\ template.RancherMinVersion # ""
          /\ SemverParse(serverVersion) < SemverParse(template.RancherMinVersion)
       \/ /\ template.RancherMaxVersion # ""
          /\ SemverParse(serverVersion) > SemverParse(template.RancherMaxVersion)

\* ---- the lister and the URL builder ----
\* t.CatalogTemplateVersionLister.Get(namespace, name): the objects of the index that
\* carry the key (none: the Get answers NotFound)
ListerGet(namespace, name) ==
    {tv \in templateVersionLister : tv.Namespace = namespace /\ tv.Name = name}

\* apiContext.URLBuilder.ResourceLinkByID(schema, id) for the templateVersion schema
ResourceLinkByID(id) == "https://rancher/v3/templateVersions/" \o id

\* ---- templateStore ----
TemplateVersionAlwaysTrue(externalID) == TRUE

TemplateVersionFailClosed(externalID) ==
    LET parsed == ParseExternalID(externalID)
        found == ListerGet(parsed.namespace, parsed.templateVersionID)
    IN  IF ~ ReleaseServerVersion(serverVersion) THEN TRUE
        ELSE IF parsed.err THEN TRUE
        ELSE IF found = {} THEN FALSE
        ELSE ~ (\E template \in found : ValidateRancherVersionFails(template))

\* templateStore.templateVersionForRancherVersion
templateVersionForRancherVersion(externalID) ==
    LET rancherVersion == serverVersion
        parsed == ParseExternalID(externalID)
        found == ListerGet(parsed.namespace, parsed.templateVersionID)
    IN  IF ~ ReleaseServerVersion(rancherVersion) THEN TRUE
        ELSE IF parsed.err THEN TRUE
        ELSE IF found = {} THEN TRUE
        ELSE IF \E template \in found : ValidateRancherVersionFails(template) THEN FALSE
        ELSE TRUE

VersionIDNoRevision(id, version) == SprintfDash(id, version.version)

\* the versionID of one element of the versions list (store.go lines 55-63)
VersionID(id, version) ==
    LET revision == IF version.hasRevision THEN FormatInt(version.revision) ELSE ""
    IN  IF revision # "" THEN SprintfDash(id, revision)
        ELSE SprintfDash(id, version.version)

RECURSIVE ExtractLoop(_, _, _, _)
\* the for loop of extractVersionLinks from element i on, r the map built so far
ExtractLoop(id, versionMap, i, r) ==
    IF i > Len(versionMap) THEN r
    ELSE LET version == versionMap[i]
             next == IF templateVersionForRancherVersion(version.externalId)
                     THEN MapSet(r, version.version,
                                 ResourceLinkByID(VersionID(id, version)))
                     ELSE r
         IN  ExtractLoop(id, versionMap, i + 1, next)

\* templateStore.extractVersionLinks
extractVersionLinks(res) ==
    IF res.hasVersions THEN ExtractLoop(res.id, res.versions, 1, EmptyMap)
    ELSE EmptyMap

\* ---- actions of the catalog model ----
\* an administrator changes the server-version setting
SetServerVersion ==
    /\ \E v \in ServerVersions : v # serverVersion /\ serverVersion' = v
    /\ response' = NoResponse
    /\ checkLog' = <<>>
    /\ UNCHANGED <<templateVersionStore, templateVersionLister, resource>>
    /\ UNCHANGED alertVars

\* the catalog controller stores a template version
CreateTemplateVersion ==
    /\ \E tv \in TemplateVersionObjects :
          /\ ~ \E o \in templateVersionStore : o.Namespace = tv.Namespace /\ o.Name = tv.Name
          /\ templateVersionStore' = templateVersionStore \cup {tv}
    /\ response' = NoResponse
    /\ checkLog' = <<>>
    /\ UNCHANGED <<serverVersion, templateVersionLister, resource>>
    /\ UNCHANGED alertVars

\* the informer brings the lister's index up to date with the store
InformerSync ==
    /\ templateVersionLister # templateVersionStore
    /\ templateVersionLister' = templateVersionStore
    /\ response' = NoResponse
    /\ checkLog' = <<>>
    /\ UNCHANGED <<serverVersion, templateVersionStore, resource>>
    /\ UNCHANGED alertVars

\* the catalog controller adds a version to the stored template
AppendVersion ==
    /\ \E e \in VersionEntries :
          /\ ~ resource.hasVersions \/ Len(resource.versions) < MaxVersions
          /\ resource' = [resource EXCEPT !.hasVersions = TRUE,
                                          !.versions = Append(@, e)]
    /\ response' = NoResponse
    /\ checkLog' = <<>>
    /\ UNCHANGED <<serverVersion, templateVersionStore, templateVersionLister>>
    /\ UNCHANGED alertVars

\* the stored template gets an empty versions list
EmptyVersions ==
    /\ ~ resource.hasVersions
    /\ resource' = [resource EXCEPT !.hasVersions = TRUE]
    /\ response' = NoResponse
    /\ checkLog' = <<>>
    /\ UNCHANGED <<serverVersion, templateVersionStore, templateVersionLister>>
    /\ UNCHANGED alertVars

\* the Transformer GetTemplateStore installs (store.go lines 38-41)
Transformer ==
    /\ ~ response.present
    /\ response' = [present |-> TRUE, versionLinks |-> extractVersionLinks(resource)]
    /\ checkLog' = IF resource.hasVersions
                   THEN [i \in 1..Len(resource.versions) |->
                            [externalID |-> resource.versions[i].externalId,
                             result |-> templateVersionForRancherVersion(
                                            resource.versions[i].externalId)]]
                   ELSE <<>>
    /\ UNCHANGED <<serverVersion, templateVersionStore, templateVersionLister, resource>>
    /\ UNCHANGED alertVars

InitTemplateStore ==
    /\ serverVersion \in ServerVersions
    /\ templateVersionStore = {}
    /\ templateVersionLister = {}
    /\ resource = [id |-> TemplateID, hasVersions |-> FALSE, versions |-> <<>>]
    /\ response = NoResponse
    /\ checkLog = <<>>

NextCatalog ==
    \/ SetServerVersion
    \/ CreateTemplateVersion
    \/ InformerSync
    \/ AppendVersion
    \/ EmptyVersions
    \/ Transformer


(***************************************************************************)
(*                     claims about package catalog                        *)
(***************************************************************************)

\* the elements of the versions list the last Transformer went through
Versions == IF resource.hasVersions THEN resource.versions ELSE <<>>

\* the template version objects the management store holds for an element
StoredTemplateVersions(version) ==
    LET parsed == ParseExternalID(version.externalId)
    IN  IF parsed.err THEN {}
        ELSE {tv \in templateVersionStore :
                 tv.Namespace = parsed.namespace /\ tv.Name = parsed.templateVersionID}

\* the lister returns the element's template version and ValidateRancherVersion
\* rejects it for the running server version
FoundIncompatible(externalID) ==
    LET parsed == ParseExternalID(externalID)
    IN  /\ ReleaseServerVersion(serverVersion)
        /\ ~ parsed.err
        /\ \E tv \in templateVersionLister :
              /\ tv.Namespace = parsed.namespace
              /\ tv.Name = parsed.templateVersionID
              /\ ValidateRancherVersionFails(tv)

\* C1, as stated: no version whose template-version object fails
\* ValidateRancherVersion against the running server version has a link, whatever
\* the lister holds and whatever the server version is.
C1_NoIncompatibleVersionLinked ==
    response.present =>
        \A i \in 1..Len(Versions) :
            (\E tv \in StoredTemplateVersions(Versions[i]) : ValidateRancherVersionFails(tv))
                => Versions[i].version \notin MapKeys(response.versionLinks)

\* C1, amended: a version string has a link only if some element carrying it was
\* not found incompatible, that is, unless for every element with that version string
\* the server version is a release, the external ID parses, the lister returns the
\* template version and ValidateRancherVersion rejects it.
C1_LinkedOnlyIfNotFoundIncompatible ==
    response.present =>
        \A k \in MapKeys(response.versionLinks) :
            \E i \in 1..Len(Versions) :
                Versions[i].version = k /\ ~ FoundIncompatible(Versions[i].externalId)

\* a response where one version was found incompatible and has no link while the
\* other version has one
C1_Witness ==
    /\ response.present
    /\ \E i, j \in 1..Len(Versions) :
          /\ FoundIncompatible(Versions[i].externalId)
          /\ Versions[i].version \notin MapKeys(response.versionLinks)
          /\ Versions[j].version \in MapKeys(response.versionLinks)

\* C2: templateVersionForRancherVersion answers true whenever the server version is
\* no release, whenever the external ID does not parse and whenever the lister Get
\* fails; it answers false only when the template version was found and
\* ValidateRancherVersion rejected it.
C2_FailOpen ==
    \A i \in 1..Len(checkLog) :
        LET call == checkLog[i]
            parsed == ParseExternalID(call.externalID)
            got == {tv \in templateVersionLister :
                       tv.Namespace = parsed.namespace /\ tv.Name = parsed.templateVersionID}
        IN  /\ ~ ReleaseServerVersion(serverVersion) => call.result
            /\ parsed.err => call.result
            /\ got = {} => call.result
            /\ ~ call.result =>
                  /\ ReleaseServerVersion(serverVersion)
                  /\ ~ parsed.err
                  /\ \E tv \in got : ValidateRancherVersionFails(tv)
            /\ (/\ ReleaseServerVersion(serverVersion)
                /\ ~ parsed.err
                /\ \E tv \in got : ValidateRancherVersionFails(tv)) => ~ call.result

\* one Transformer run under a release server version that met an unparsable external
\* ID (true), a template version the lister does not hold (true) and one the lister
\* holds and ValidateRancherVersion rejects (false)
C2_Witness ==
    /\ ReleaseServerVersion(serverVersion)
    /\ \E i, j \in 1..Len(checkLog) :
          /\ ~ checkLog[i].result
          /\ checkLog[j].result
          /\ ~ ParseExternalID(checkLog[j].externalID).err
          /\ ListerGet(ParseExternalID(checkLog[j].externalID).namespace,
                       ParseExternalID(checkLog[j].externalID).templateVersionID) = {}

\* the elements of the versions list that passed the compatibility check
Passing == {i \in 1..Len(Versions) : checkLog[i].result}

\* the link the claim expects for an element: its target ends in the decimal
\* numeral of the revision when there is one, in the version string otherwise
IsLinkOf(link, version) ==
    LET prefix == ResourceLinkByID(resource.id \o "-")
        suffix == SubSeq(link, Len(prefix) + 1, Len(link))
    IN  /\ Len(link) > Len(prefix)
        /\ SubSeq(link, 1, Len(prefix)) = prefix
        /\ IF version.hasRevision
           THEN /\ \A c \in 1..Len(suffix) : SubSeq(suffix, c, c) \in
                       {"0", "1", "2", "3", "4", "5", "6", "7", "8", "9"}
                /\ Len(suffix) = 1 \/ Head(suffix) # "0"
                /\ ParseNat(suffix) = version.revision
           ELSE suffix = version.version

\* C10: every element that passes the check has a link keyed by its version string,
\* with target "<template id>-<revision>" when it carries a revision and
\* "<template id>-<version>" otherwise (the last passing element of a version string
\* decides the target); there is one link per version string at most, and the map is
\* non-nil, and empty when there is no versions list or no element passes.
C10_VersionLinks ==
    response.present =>
        LET r == response.versionLinks
        IN  /\ ~ r.nil
            /\ \A i \in Passing : Versions[i].version \in MapKeys(r)
            /\ \A i \in Passing :
                  (\A j \in Passing : j > i => Versions[j].version # Versions[i].version)
                      => \E p \in r.pairs :
                            p[1] = Versions[i].version /\ IsLinkOf(p[2], Versions[i])
            /\ \A p, q \in r.pairs : p[1] = q[1] => p = q
            /\ \A p \in r.pairs : \E i \in Passing : p[1] = Versions[i].version
            /\ Passing = {} => r = EmptyMap

\* two passing elements of one version string, the first with revision MaxRevision,
\* the second without a revision, next to an element that did not pass
C10_Witness ==
    /\ response.present
    /\ \E i, j \in Passing :
          /\ i < j
          /\ Versions[i].version = Versions[j].version
          /\ Versions[i].hasRevision /\ Versions[i].revision = MaxRevision
          /\ ~ Versions[j].hasRevision
    /\ Cardinality(response.versionLinks.pairs) = 1


(***************************************************************************)
(*                            package alert                                *)
(***************************************************************************)

\* ---- bounds of the alert model ----
MaxFailures == 1        \* store or lister calls that fail in one behaviour
MaxEdited == 1          \* objects a user has deactivated at any one time
MaxConcurrent == 2      \* invocations that run at once in the concurrent specification

\* ---- the values the model draws from ----
ClusterNames == {"c-1", "c-2"}
\* v3.Project objects: Namespace is the cluster, Name the project
Projects == {[Namespace |-> "c-1", Name |-> "p-1"], [Namespace |-> "c-2", Name |-> "p-2"]}
\* corev1.Node objects, with their labels
NodeObjects ==
    {[Name |-> "linux-node", Labels |-> {<<"kubernetes.io/os", "linux">>}],
     [Name |-> "windows-node", Labels |-> {<<"kubernetes.io/os", "windows">>}],
     [Name |-> "beta-node", Labels |-> {<<"beta.kubernetes.io/os", "windows">>}]}

nodeAlertGroupName == "node-alert"
\* windowNodeLabel: the selector kubernetes.io/os=windows
windowNodeLabel == {<<"kubernetes.io/os", "windows">>}
\* labels.Selector.Matches
Matches(selector, labels) == selector \subseteq labels

SeverityCritical == "critical"
SeverityWarning == "warning"

\* common.GetGroupID (pkg/controllers/user/alert/common, not in src/)
GetGroupID(namespace, name) == namespace \o ":" \o name

\* ---- the static table ----
\* a v3.ClusterAlertGroup literal of the table: only ObjectMeta.Name is set
TableGroup(name) ==
    [Name |-> name, Namespace |-> "", ResourceVersion |-> 0, ClusterName |-> "",
     AlertState |-> "active"]
\* a v3.ClusterAlertRule literal of the table
TableRule(name, severity) ==
    [Name |-> name, Namespace |-> "", ResourceVersion |-> 0, ClusterName |-> "",
     GroupName |-> "", Severity |-> severity, AlertState |-> "active"]

\* var entries = []entry{...}
EntriesTable ==
    << [group |-> TableGroup("etcd-alert"),
        rules |-> << TableRule("no-leader", SeverityCritical),
                     TableRule("high-number-of-leader-changes", SeverityWarning),
                     TableRule("db-over-size", SeverityWarning),
                     TableRule("etcd-system-service", SeverityCritical) >>],
       [group |-> TableGroup("kube-components-alert"),
        rules |-> << TableRule("scheduler-system-service", SeverityCritical),
                     TableRule("controllermanager-system-service", SeverityCritical) >>],
       [group |-> TableGroup("node-alert"),
        rules |-> << TableRule("node-disk-running-full", SeverityCritical),
                     TableRule("high-memmory", SeverityWarning),
                     TableRule("high-cpu-load", SeverityWarning) >>],
       [group |-> TableGroup("event-alert"),
        rules |-> << TableRule("deployment-event-alert", SeverityWarning) >>] >>

\* ---- the store and the listers ----
\* the objects of a bag that carry the key namespace/name
Keyed(bag, namespace, name) ==
    {o \in BagToSet(bag) : o.Namespace = namespace /\ o.Name = name}

\* Create on a client bound to namespace ns: the API server stores the object under
\* its key, with its first resource version, unless the key is taken, and then
\* answers AlreadyExists
StoreCreate(bag, ns, obj) ==
    LET o == [obj EXCEPT !.Namespace = IF @ = "" THEN ns ELSE @,
                         !.ResourceVersion = 1]
    IN  IF Keyed(bag, o.Namespace, o.Name) # {}
        THEN [store |-> bag, err |-> "AlreadyExists"]
        ELSE [store |-> bag (+) SetToBag({o}), err |-> "nil"]

\* what a lister Get can answer: the object when the store holds it, NotFound when it
\* does not or when the informer index has not caught up with it, or another error
\* while calls may still fail
GetOutcomes(bag, namespace, name) ==
    {"NotFound"}
    \cup (IF Keyed(bag, namespace, name) # {} THEN {"nil"} ELSE {})
    \cup (IF failures > 0 THEN {"Error"} ELSE {})

\* apierrors.IsNotFound / apierrors.IsAlreadyExists
IsNotFound(err) == err = "NotFound"
IsAlreadyExists(err) == err = "AlreadyExists"

\* ---- invocations ----
Procs == 1..MaxConcurrent

Idle ==
    [hook |-> "", pc |-> "idle", clusterName |-> "", obj |-> <<>>, i |-> 0, j |-> 0,
     err |-> "nil", windowsNodes |-> {}, ret |-> [obj |-> <<>>, err |-> "nil"],
     listErr |-> "none", createErr |-> "none", nGet |-> 0, nCreate |-> 0]

Running == {p \in Procs : inv[p].pc # "idle"}

\* a worker is free: the lowest idle one takes the next invocation
Free(p) ==
    /\ inv[p].pc = "idle"
    /\ \A q \in Procs : q < p => inv[q].pc # "idle"
    /\ Cardinality(Running) < maxRunning

\* the number of failed calls left after a call that answered err
FailuresAfter(err) == IF err = "Error" THEN failures - 1 ELSE failures


\* ---- initClusterPreCanAlerts ----
\* An invocation walks the table: entry i, its group (j = 0) and then its rules
\* (j = 1..).  pc is "get" before the lister Get of the item and "create" before its
\* Create.

\* the name of the item at (i, j)
ItemName(i, j) == IF j = 0 THEN entries[i].group.Name ELSE entries[i].rules[j].Name

\* the item after (i, j) in the two loops (lines 429 and 445); <<0, 0>> after the last
NextItem(i, j) ==
    IF j < Len(entries[i].rules) THEN <<i, j + 1>>
    ELSE IF i < Len(entries) THEN <<i + 1, 0>>
    ELSE <<0, 0>>

\* go on with the next item, or finish after the last one
Advance(r) ==
    LET n == NextItem(r.i, r.j)
    IN  IF n = <<0, 0>>
        THEN [r EXCEPT !.pc = "done", !.i = 0, !.j = 0, !.err = "nil"]
        ELSE [r EXCEPT !.pc = "get", !.i = n[1], !.j = n[2], !.err = "nil"]

AfterGetCreateOnAnyError(r) ==
    IF r.err # "nil" THEN [r EXCEPT !.pc = "create"] ELSE Advance(r)

\* lines 433-437 and 447-451: a Create follows only a Get that answered NotFound
AfterGet(r) ==
    IF r.err # "nil" /\ IsNotFound(r.err) THEN [r EXCEPT !.pc = "create"] ELSE Advance(r)

AfterCreateAbortOnError(r, err) ==
    IF err # "nil" /\ ~ IsAlreadyExists(err)
    THEN [r EXCEPT !.pc = "done", !.i = 0, !.j = 0, !.err = "nil"]
    ELSE Advance(r)

\* lines 438-440 and 453-455: whatever the Create answered, the loop goes on
AfterCreate(r, err) == Advance(r)

\* the lines a call that answered err adds to the log: a Get logs every error but
\* NotFound, a Create every error but AlreadyExists
WarnAfterGet(err) == IF err # "nil" /\ ~ IsNotFound(err) THEN warnings + 1 ELSE warnings
WarnAfterCreate(err) ==
    IF err # "nil" /\ ~ IsAlreadyExists(err) THEN warnings + 1 ELSE warnings

\* group := entry.group; group.Spec.ClusterName = clusterName (lines 430, 437)
GroupToCreate(entry, clusterName) == [entry.group EXCEPT !.ClusterName = clusterName]

RuleToCreateOwnName(entry, j, clusterName) ==
    [entry.rules[j] EXCEPT !.ClusterName = clusterName,
                           !.GroupName = GetGroupID(clusterName, entry.rules[j].Name)]

\* rule.Spec.ClusterName = clusterName; rule.Spec.GroupName = GetGroupID(...) (lines 451-452)
RuleToCreate(entry, j, clusterName) ==
    [entry.rules[j] EXCEPT !.ClusterName = clusterName,
                           !.GroupName = GetGroupID(clusterName, entry.group.Name)]

\* the table after item (i, j) was prepared for a cluster: `range` hands out copies of
\* the entries and rules, so the assignments of lines 437 and 451-452 leave it alone
TableAfterSeed(table, i, j, clusterName) == table

CreateOrUpdate(bag, ns, obj) ==
    LET o == [obj EXCEPT !.Namespace = IF @ = "" THEN ns ELSE @,
                         !.ResourceVersion = 1]
        old == Keyed(bag, o.Namespace, o.Name)
    IN  IF old # {}
        THEN [store |-> (bag (-) SetToBag(old))
                        (+) SetToBag({[o EXCEPT !.ResourceVersion = 2]}),
              err |-> "nil"]
        ELSE [store |-> bag (+) SetToBag({o}), err |-> "nil"]

\* the one store call every hook makes for an object: Create (lines 438, 453, 494,
\* 524, 555, 625), never Update or Delete
ClientCreate(bag, ns, obj) == StoreCreate(bag, ns, obj)

\* what the call can answer: the store's answer, or another error while calls may fail
ClientCreateOutcomes(bag, ns, obj) ==
    {ClientCreate(bag, ns, obj)}
    \cup (IF failures > 0 THEN {[store |-> bag, err |-> "Error"]} ELSE {})

\* initClusterPreCanAlerts(initAlerts, clusterName) is called
StartCluster(p) ==
    /\ Free(p)
    /\ \E c \in clusters :
          inv' = [inv EXCEPT ![p] = [Idle EXCEPT !.hook = "initClusterPreCanAlerts",
                                                 !.pc = "get", !.clusterName = c,
                                                 !.i = 1, !.j = 0]]
    /\ UNCHANGED <<entries, storeVars, warnings, failures, maxRunning, clusters>>
    /\ UNCHANGED catalogVars

\* clusterAlertGroupLister.Get / clusterAlertRuleLister.Get (lines 432, 446)
ClusterGet(p) ==
    /\ inv[p].hook = "initClusterPreCanAlerts"
    /\ inv[p].pc = "get"
    /\ LET r == inv[p]
           bag == IF r.j = 0 THEN clusterAlertGroups ELSE clusterAlertRules
       IN  \E err \in GetOutcomes(bag, r.clusterName, ItemName(r.i, r.j)) :
              /\ inv' = [inv EXCEPT ![p] = AfterGet([r EXCEPT !.err = err, !.nGet = @ + 1])]
              /\ warnings' = WarnAfterGet(err)
              /\ failures' = FailuresAfter(err)
    /\ UNCHANGED <<entries, storeVars, maxRunning, clusters>>
    /\ UNCHANGED catalogVars

\* clusterAlertGroups.Create / clusterAlertRules.Create (lines 437-440, 451-455)
ClusterCreate(p) ==
    /\ inv[p].hook = "initClusterPreCanAlerts"
    /\ inv[p].pc = "create"
    /\ LET r == inv[p]
       IN  /\ entries' = TableAfterSeed(entries, r.i, r.j, r.clusterName)
           /\ IF r.j = 0
              THEN \E out \in ClientCreateOutcomes(clusterAlertGroups, r.clusterName,
                                                   GroupToCreate(entries[r.i], r.clusterName)) :
                      /\ clusterAlertGroups' = out.store
                      /\ inv' = [inv EXCEPT ![p] = AfterCreate(r, out.err)]
                      /\ warnings' = WarnAfterCreate(out.err)
                      /\ failures' = FailuresAfter(out.err)
                      /\ UNCHANGED clusterAlertRules
              ELSE \E out \in ClientCreateOutcomes(clusterAlertRules, r.clusterName,
                                                   RuleToCreate(entries[r.i], r.j, r.clusterName)) :
                      /\ clusterAlertRules' = out.store
                      /\ inv' = [inv EXCEPT ![p] = AfterCreate(r, out.err)]
                      /\ warnings' = WarnAfterCreate(out.err)
                      /\ failures' = FailuresAfter(out.err)
                      /\ UNCHANGED clusterAlertGroups
    /\ UNCHANGED <<projectAlertGroups, projectAlertRules, maxRunning, clusters>>
    /\ UNCHANGED catalogVars

\* ---- ProjectLifecycle ----
\* projectName := obj.Name, the namespace of the project's alert objects (line 474)
ProjectNamespace(obj) == obj.Name

\* projectID := fmt.Sprintf("%s:%s", obj.Namespace, obj.Name) (line 475)
ProjectID(obj) == obj.Namespace \o ":" \o obj.Name

ProjectGroupName == "projectalert-workload-alert"
ProjectRuleNames == <<"less-than-half-workload-available", "memory-close-to-resource-limited">>
ProjectRuleSeverities == <<SeverityCritical, SeverityWarning>>

\* the v3.ProjectAlertGroup of lines 476-492
ProjectGroup(obj) ==
    [Name |-> ProjectGroupName, Namespace |-> ProjectNamespace(obj),
     ResourceVersion |-> 0, ProjectName |-> ProjectID(obj), AlertState |-> "active"]

\* the v3.ProjectAlertRule of lines 499-522 (k = 1) and 529-553 (k = 2)
ProjectRule(obj, k) ==
    [Name |-> ProjectRuleNames[k], Namespace |-> ProjectNamespace(obj),
     ResourceVersion |-> 0, ProjectName |-> ProjectID(obj),
     GroupName |-> GetGroupID(ProjectNamespace(obj), ProjectGroup(obj).Name),
     Severity |-> ProjectRuleSeverities[k], AlertState |-> "active"]

\* after the i-th Create of ProjectLifecycle.Create: the next one, or return obj, nil
\* (lines 494-496, 524-526, 555-558)
ProjectAfterCreate(r, err) ==
    IF r.i = Len(ProjectRuleNames) + 1
    THEN [r EXCEPT !.pc = "done", !.i = 0, !.ret = [obj |-> r.obj, err |-> "nil"]]
    ELSE [r EXCEPT !.i = @ + 1]

\* ProjectLifecycle.Create(obj) is called
StartProjectCreate(p) ==
    /\ Free(p)
    /\ \E obj \in Projects :
          /\ obj.Namespace \in clusters
          /\ inv' = [inv EXCEPT ![p] = [Idle EXCEPT !.hook = "ProjectLifecycle.Create",
                                                    !.pc = "create",
                                                    !.clusterName = obj.Namespace,
                                                    !.obj = <<obj>>, !.i = 1]]
    /\ UNCHANGED <<entries, storeVars, warnings, failures, maxRunning, clusters>>
    /\ UNCHANGED catalogVars

\* projectAlertGroups.Create (i = 1, line 494), projectAlertRules.Create (lines 524, 555)
ProjectCreate(p) ==
    /\ inv[p].hook = "ProjectLifecycle.Create"
    /\ inv[p].pc = "create"
    /\ LET r == inv[p]
           obj == r.obj[1]
       IN  IF r.i = 1
           THEN \E out \in ClientCreateOutcomes(projectAlertGroups, ProjectNamespace(obj),
                                                ProjectGroup(obj)) :
                   /\ projectAlertGroups' = out.store
                   /\ inv' = [inv EXCEPT ![p] = ProjectAfterCreate([r EXCEPT !.nCreate = @ + 1], out.err)]
                   /\ warnings' = WarnAfterCreate(out.err)
                   /\ failures' = FailuresAfter(out.err)
                   /\ UNCHANGED projectAlertRules
           ELSE \E out \in ClientCreateOutcomes(projectAlertRules, ProjectNamespace(obj),
                                                ProjectRule(obj, r.i - 1)) :
                   /\ projectAlertRules' = out.store
                   /\ inv' = [inv EXCEPT ![p] = ProjectAfterCreate([r EXCEPT !.nCreate = @ + 1], out.err)]
                   /\ warnings' = WarnAfterCreate(out.err)
                   /\ failures' = FailuresAfter(out.err)
                   /\ UNCHANGED projectAlertGroups
    /\ UNCHANGED <<entries, clusterAlertGroups, clusterAlertRules, maxRunning, clusters>>
    /\ UNCHANGED catalogVars

\* ProjectLifecycle.Updated(obj) (lines 561-563)
ProjectUpdated(p) ==
    /\ Free(p)
    /\ \E obj \in Projects :
          /\ obj.Namespace \in clusters
          /\ inv' = [inv EXCEPT ![p] = [Idle EXCEPT !.hook = "ProjectLifecycle.Updated",
                                                    !.pc = "done",
                                                    !.clusterName = obj.Namespace,
                                                    !.obj = <<obj>>,
                                                    !.ret = [obj |-> <<obj>>, err |-> "nil"]]]
    /\ UNCHANGED <<entries, storeVars, warnings, failures, maxRunning, clusters>>
    /\ UNCHANGED catalogVars

\* ProjectLifecycle.Remove(obj) (lines 565-567)
ProjectRemove(p) ==
    /\ Free(p)
    /\ \E obj \in Projects :
          /\ obj.Namespace \in clusters
          /\ inv' = [inv EXCEPT ![p] = [Idle EXCEPT !.hook = "ProjectLifecycle.Remove",
                                                    !.pc = "done",
                                                    !.clusterName = obj.Namespace,
                                                    !.obj = <<obj>>,
                                                    !.ret = [obj |-> <<obj>>, err |-> "nil"]]]
    /\ UNCHANGED <<entries, storeVars, warnings, failures, maxRunning, clusters>>
    /\ UNCHANGED catalogVars


\* ---- windowsNodeSyner ----
WindowsRuleName == "windows-node-disk-running-full"

\* the Windows rule in a group of its own, which no table entry defines
WindowsRuleInOwnGroup(clusterName) ==
    [Name |-> WindowsRuleName, Namespace |-> "", ResourceVersion |-> 0,
     ClusterName |-> clusterName,
     GroupName |-> GetGroupID(clusterName, "windows-alert"),
     Severity |-> SeverityCritical, AlertState |-> "active"]

\* the v3.ClusterAlertRule of lines 601-623
WindowsRule(clusterName) ==
    [Name |-> WindowsRuleName, Namespace |-> "", ResourceVersion |-> 0,
     ClusterName |-> clusterName,
     GroupName |-> GetGroupID(clusterName, nodeAlertGroupName),
     Severity |-> SeverityCritical, AlertState |-> "active"]

\* what l.nodeLister.List(metav1.NamespaceAll, windowNodeLabel) can answer: the nodes
\* of the cluster that match the selector, or an error while calls may still fail
ListOutcomes ==
    {[err |-> "nil", nodes |-> {n \in ns : Matches(windowNodeLabel, n.Labels)}] :
        ns \in SUBSET NodeObjects}
    \cup (IF failures > 0 THEN {[err |-> "Error", nodes |-> {}]} ELSE {})

AfterListAnyNode(r, lst) ==
    IF lst.err # "nil"
    THEN [r EXCEPT !.pc = "done", !.ret = [obj |-> <<>>, err |-> "failed to list nodes"]]
    ELSE [r EXCEPT !.pc = "get", !.windowsNodes = lst.nodes]

\* lines 576-585 of Sync, up to the call of initClusterWindowsAlert
AfterList(r, lst) ==
    IF lst.err # "nil"
    THEN [r EXCEPT !.pc = "done", !.ret = [obj |-> <<>>, err |-> "failed to list nodes"]]
    ELSE IF Cardinality(lst.nodes) # 0
    THEN [r EXCEPT !.pc = "get", !.windowsNodes = lst.nodes]
    ELSE [r EXCEPT !.pc = "done", !.windowsNodes = lst.nodes,
                   !.ret = [obj |-> r.obj, err |-> "nil"]]

WindowsAfterGetIgnoreError(r) ==
    IF r.err = "nil"
    THEN [r EXCEPT !.pc = "done", !.ret = [obj |-> r.obj, err |-> "nil"]]
    ELSE [r EXCEPT !.pc = "create"]

\* lines 592-599: an error other than NotFound is returned, an existing rule ends the
\* call, NotFound leads to the Create
WindowsAfterGet(r) ==
    IF r.err # "nil" /\ ~ IsNotFound(r.err)
    THEN [r EXCEPT !.pc = "done",
                   !.ret = [obj |-> r.obj, err |-> "Failed to get alert rules"]]
    ELSE IF r.err = "nil"
    THEN [r EXCEPT !.pc = "done", !.ret = [obj |-> r.obj, err |-> "nil"]]
    ELSE [r EXCEPT !.pc = "create"]

WindowsAfterCreateStrict(r, err) ==
    IF err # "nil"
    THEN [r EXCEPT !.pc = "done",
                   !.ret = [obj |-> r.obj, err |-> "Failed to create precan rules"]]
    ELSE [r EXCEPT !.pc = "done", !.ret = [obj |-> r.obj, err |-> "nil"]]

\* lines 625-628: every error of the Create but AlreadyExists is returned
WindowsAfterCreate(r, err) ==
    IF err # "nil" /\ ~ IsAlreadyExists(err)
    THEN [r EXCEPT !.pc = "done",
                   !.ret = [obj |-> r.obj, err |-> "Failed to create precan rules"]]
    ELSE [r EXCEPT !.pc = "done", !.ret = [obj |-> r.obj, err |-> "nil"]]

\* windowsNodeSyner.Sync(key, obj) is called
StartSync(p) ==
    /\ Free(p)
    /\ \E c \in clusters, obj \in NodeObjects :
          inv' = [inv EXCEPT ![p] = [Idle EXCEPT !.hook = "windowsNodeSyner.Sync",
                                                 !.pc = "list", !.clusterName = c,
                                                 !.obj = <<obj>>]]
    /\ UNCHANGED <<entries, storeVars, warnings, failures, maxRunning, clusters>>
    /\ UNCHANGED catalogVars

\* l.nodeLister.List (line 576)
SyncList(p) ==
    /\ inv[p].hook = "windowsNodeSyner.Sync"
    /\ inv[p].pc = "list"
    /\ \E lst \in ListOutcomes :
          /\ inv' = [inv EXCEPT ![p] = AfterList([inv[p] EXCEPT !.listErr = lst.err], lst)]
          /\ failures' = FailuresAfter(lst.err)
    /\ UNCHANGED <<entries, storeVars, warnings, maxRunning, clusters>>
    /\ UNCHANGED catalogVars

\* l.clusterAlertRules.Controller().Lister().Get (line 592)
WindowsGet(p) ==
    /\ inv[p].hook = "windowsNodeSyner.Sync"
    /\ inv[p].pc = "get"
    /\ LET r == inv[p]
       IN  \E err \in GetOutcomes(clusterAlertRules, r.clusterName, WindowsRuleName) :
              /\ inv' = [inv EXCEPT ![p] = WindowsAfterGet([r EXCEPT !.err = err, !.nGet = @ + 1])]
              /\ failures' = FailuresAfter(err)
    /\ UNCHANGED <<entries, storeVars, warnings, maxRunning, clusters>>
    /\ UNCHANGED catalogVars

\* l.clusterAlertRules.Create (line 625)
WindowsCreate(p) ==
    /\ inv[p].hook = "windowsNodeSyner.Sync"
    /\ inv[p].pc = "create"
    /\ LET r == inv[p]
       IN  \E out \in ClientCreateOutcomes(clusterAlertRules, r.clusterName,
                                           WindowsRule(r.clusterName)) :
              /\ clusterAlertRules' = out.store
              /\ inv' = [inv EXCEPT ![p] = WindowsAfterCreate([r EXCEPT !.nCreate = @ + 1,
                                                                        !.createErr = out.err],
                                                              out.err)]
              /\ failures' = FailuresAfter(out.err)
    /\ UNCHANGED <<entries, clusterAlertGroups, projectAlertGroups, projectAlertRules,
                   warnings, maxRunning, clusters>>
    /\ UNCHANGED catalogVars

\* the hook has returned to the controller: the worker is free again
Return(p) ==
    /\ inv[p].pc = "done"
    /\ inv' = [inv EXCEPT ![p] = Idle]
    /\ UNCHANGED <<entries, storeVars, warnings, failures, maxRunning, clusters>>
    /\ UNCHANGED catalogVars

\* ---- the users of the store ----
\* the alerts the user of the model deactivates: a group and a rule of the table, the
\* Windows rule, the group and a rule of a project
UserEdited == {"node-alert", "high-cpu-load", WindowsRuleName, ProjectGroupName,
               "memory-close-to-resource-limited"}

Inactive(bag) == {o \in BagToSet(bag) : o.AlertState = "inactive"}
Edited == Cardinality(Inactive(clusterAlertGroups)) + Cardinality(Inactive(clusterAlertRules))
          + Cardinality(Inactive(projectAlertGroups)) + Cardinality(Inactive(projectAlertRules))

\* the objects of a bag the user can deactivate
Editable(bag) == {o \in BagToSet(bag) : o.Name \in UserEdited /\ o.AlertState = "active"}

\* the bag with object o deactivated: an update, which gives it its next resource version
Deactivate(bag, o) ==
    (bag (-) SetToBag({o}))
    (+) SetToBag({[o EXCEPT !.AlertState = "inactive", !.ResourceVersion = @ + 1]})

\* a user deactivates an alert group or rule through the API
UserEdit ==
    /\ Edited < MaxEdited
    /\ \/ \E o \in Editable(clusterAlertGroups) :
             /\ clusterAlertGroups' = Deactivate(clusterAlertGroups, o)
             /\ UNCHANGED <<clusterAlertRules, projectAlertGroups, projectAlertRules>>
       \/ \E o \in Editable(clusterAlertRules) :
             /\ clusterAlertRules' = Deactivate(clusterAlertRules, o)
             /\ UNCHANGED <<clusterAlertGroups, projectAlertGroups, projectAlertRules>>
       \/ \E o \in Editable(projectAlertGroups) :
             /\ projectAlertGroups' = Deactivate(projectAlertGroups, o)
             /\ UNCHANGED <<clusterAlertGroups, clusterAlertRules, projectAlertRules>>
       \/ \E o \in Editable(projectAlertRules) :
             /\ projectAlertRules' = Deactivate(projectAlertRules, o)
             /\ UNCHANGED <<clusterAlertGroups, clusterAlertRules, projectAlertGroups>>
    /\ UNCHANGED <<entries, inv, warnings, failures, maxRunning, clusters>>
    /\ UNCHANGED catalogVars

\* ---- specifications ----
\* the alert variables before any hook ran: n invocations at once, the clusters cs,
\* f calls that may fail
InitAlert(n, cs, f) ==
    /\ entries = EntriesTable
    /\ clusterAlertGroups = EmptyBag
    /\ clusterAlertRules = EmptyBag
    /\ projectAlertGroups = EmptyBag
    /\ projectAlertRules = EmptyBag
    /\ inv = [p \in Procs |-> Idle]
    /\ warnings = 0
    /\ failures = f
    /\ maxRunning = n
    /\ clusters = cs

\* the catalog variables of the alert specifications
CatalogAtRest ==
    /\ serverVersion = "dev"
    /\ templateVersionStore = {}
    /\ templateVersionLister = {}
    /\ resource = [id |-> TemplateID, hasVersions |-> FALSE, versions |-> <<>>]
    /\ response = NoResponse
    /\ checkLog = <<>>

Hooks(p) ==
    \/ StartCluster(p)
    \/ ClusterGet(p)
    \/ ClusterCreate(p)
    \/ StartProjectCreate(p)
    \/ ProjectCreate(p)
    \/ ProjectUpdated(p)
    \/ ProjectRemove(p)
    \/ StartSync(p)
    \/ SyncList(p)
    \/ WindowsGet(p)
    \/ WindowsCreate(p)
    \/ Return(p)

\* the hooks of one cluster and its project, one invocation at a time, with calls
\* that fail and a user who edits the store
Init == CatalogAtRest /\ InitAlert(1, {"c-1"}, MaxFailures)
Next == (\E p \in Procs : Hooks(p)) \/ UserEdit
Spec == Init /\ [][Next]_vars

\* the hooks of one cluster, MaxConcurrent invocations at a time, against a store and
\* listers whose calls do not fail (the listers may lag behind the store)
InitConcurrent == CatalogAtRest /\ InitAlert(MaxConcurrent, {"c-1"}, 0)
NextHooks == \E p \in Procs : Hooks(p)
SpecConcurrent == InitConcurrent /\ [][NextHooks]_vars

\* the hooks of all clusters and projects, one invocation at a time, against a store
\* and listers whose calls do not fail
InitFleet == CatalogAtRest /\ InitAlert(1, ClusterNames, 0)
SpecFleet == InitFleet /\ [][NextHooks]_vars

\* the template store
InitCatalog ==
    InitTemplateStore /\ InitAlert(1, ClusterNames, MaxFailures)

SpecCatalog ==
    InitCatalog /\ [][NextCatalog]_vars

(***************************************************************************)
(*                      claims about package alert                         *)
(***************************************************************************)

ClusterHook == "initClusterPreCanAlerts"
ProjectHook == "ProjectLifecycle.Create"
SyncHook == "windowsNodeSyner.Sync"

\* the names of the static table, as the source lists them
TableGroupNames == {"etcd-alert", "kube-components-alert", "node-alert", "event-alert"}
TableRuleGroups ==
    {<<"no-leader", "etcd-alert">>, <<"high-number-of-leader-changes", "etcd-alert">>,
     <<"db-over-size", "etcd-alert">>, <<"etcd-system-service", "etcd-alert">>,
     <<"scheduler-system-service", "kube-components-alert">>,
     <<"controllermanager-system-service", "kube-components-alert">>,
     <<"node-disk-running-full", "node-alert">>, <<"high-memmory", "node-alert">>,
     <<"high-cpu-load", "node-alert">>, <<"deployment-event-alert", "event-alert">>}

\* the store holds the group / the rule under the cluster's key
HasGroup(c, name) == Keyed(clusterAlertGroups, c, name) # {}
HasRule(c, name) == Keyed(clusterAlertRules, c, name) # {}

\* the store holds every group and rule of the table for cluster c
ClusterComplete(c) ==
    /\ \A g \in TableGroupNames : HasGroup(c, g)
    /\ \A rg \in TableRuleGroups : HasRule(c, rg[1])

\* the store holds the group and the two rules of project obj
ProjectComplete(obj) ==
    /\ Keyed(projectAlertGroups, obj.Name, ProjectGroupName) # {}
    /\ \A k \in 1..Len(ProjectRuleNames) :
          Keyed(projectAlertRules, obj.Name, ProjectRuleNames[k]) # {}

\* the store holds all the objects the hook of invocation r creates
SeededFor(r) ==
    CASE r.hook = ClusterHook -> ClusterComplete(r.clusterName)
      [] r.hook = ProjectHook -> ProjectComplete(r.obj[1])
      [] r.hook = SyncHook -> HasRule(r.clusterName, WindowsRuleName)
      [] OTHER -> TRUE

\* every key of a bag carries one object, once
OnePerKey(bag) ==
    /\ \A o \in BagToSet(bag) : CopiesIn(o, bag) = 1
    /\ \A o1, o2 \in BagToSet(bag) :
          (o1.Namespace = o2.Namespace /\ o1.Name = o2.Name) => o1 = o2
NoDuplicates ==
    /\ OnePerKey(clusterAlertGroups) /\ OnePerKey(clusterAlertRules)
    /\ OnePerKey(projectAlertGroups) /\ OnePerKey(projectAlertRules)

\* this step leaves every object of the store as it is
ObjectsKept ==
    /\ \A o \in BagToSet(clusterAlertGroups) :
          CopiesIn(o, clusterAlertGroups') = CopiesIn(o, clusterAlertGroups)
    /\ \A o \in BagToSet(clusterAlertRules) :
          CopiesIn(o, clusterAlertRules') = CopiesIn(o, clusterAlertRules)
    /\ \A o \in BagToSet(projectAlertGroups) :
          CopiesIn(o, projectAlertGroups') = CopiesIn(o, projectAlertGroups)
    /\ \A o \in BagToSet(projectAlertRules) :
          CopiesIn(o, projectAlertRules') = CopiesIn(o, projectAlertRules)

\* C3: seeding is idempotent.  Once the store holds the objects of a hook, every
\* further step of that hook leaves the store as it is, and no key ever carries two
\* objects.
C3_SeedingIdempotent ==
    /\ [] NoDuplicates
    /\ [][\A p \in Procs :
             (inv'[p] # inv[p] /\ SeededFor(inv[p])) => UNCHANGED storeVars]_vars

\* a second run of initClusterPreCanAlerts reaches the last item of the table in a
\* behaviour without a failed call: the first run has created every object
C3_Witness ==
    /\ failures = MaxFailures
    /\ \E p \in Procs :
          /\ inv[p].hook = ClusterHook
          /\ inv[p].pc = "get"
          /\ ItemName(inv[p].i, inv[p].j) = "deployment-event-alert"
          /\ ClusterComplete(inv[p].clusterName)

\* C4: in initClusterPreCanAlerts and initClusterWindowsAlert a Create is issued only
\* after the lister Get of that key answered NotFound, and no step of a hook changes
\* or removes an object the store holds.
C4_CreateOnlyAfterNotFound ==
    /\ [] (\A p \in Procs :
              (inv[p].hook \in {ClusterHook, SyncHook} /\ inv[p].pc = "create")
                  => IsNotFound(inv[p].err))
    /\ [][\A p \in Procs :
             (/\ inv[p].hook \in {ClusterHook, SyncHook}
              /\ inv[p].pc = "get"
              /\ inv'[p] # inv[p]
              /\ inv'[p].pc = "create") => IsNotFound(inv'[p].err)]_vars
    /\ [][inv' # inv => ObjectsKept]_vars

\* Sync has returned without a Create because the lister returned the Windows rule,
\* which a user had deactivated and which is still deactivated
C4_Witness ==
    \E p \in Procs :
        /\ inv[p].hook = SyncHook
        /\ inv[p].pc = "done"
        /\ inv[p].nGet = 1
        /\ inv[p].err = "nil"
        /\ inv[p].nCreate = 0
        /\ \E o \in Keyed(clusterAlertRules, inv[p].clusterName, WindowsRuleName) :
              o.AlertState = "inactive"

\* the group of cluster c the table defines under name g, scoped to c
GroupSeeded(c, g) ==
    \E o \in BagToSet(clusterAlertGroups) :
        o.Namespace = c /\ o.Name = g /\ o.ClusterName = c
\* the rule of cluster c the table defines under name rg[1] in group rg[2]
RuleSeeded(c, rg) ==
    \E o \in BagToSet(clusterAlertRules) :
        /\ o.Namespace = c /\ o.Name = rg[1] /\ o.ClusterName = c
        /\ o.GroupName = c \o ":" \o rg[2]
ClusterSeeded(c) ==
    /\ \A g \in TableGroupNames : GroupSeeded(c, g)
    /\ \A rg \in TableRuleGroups : RuleSeeded(c, rg)
\* the group and the two rules of project obj, in the namespace named after the project
ProjectSeeded(obj) ==
    /\ \E o \in BagToSet(projectAlertGroups) :
          /\ o.Namespace = obj.Name /\ o.Name = "projectalert-workload-alert"
          /\ o.ProjectName = obj.Namespace \o ":" \o obj.Name
    /\ \A n \in {"less-than-half-workload-available", "memory-close-to-resource-limited"} :
          \E o \in BagToSet(projectAlertRules) :
              /\ o.Namespace = obj.Name /\ o.Name = n
              /\ o.ProjectName = obj.Namespace \o ":" \o obj.Name

\* C5: when the hook of a cluster or project has returned, and no call failed, the
\* store holds every default of that cluster (4 groups, 10 rules, each with its
\* ClusterName and the GroupName of its own table group) or project (the group and its
\* 2 rules, with ProjectName "<namespace>:<name>"), whatever was seeded before; the
\* table is as it was.
C5_DefaultsSeeded ==
    /\ Cardinality(TableGroupNames) = 4
    /\ Cardinality(TableRuleGroups) = 10
    /\ entries = EntriesTable
    /\ \A p \in Procs :
          /\ (inv[p].hook = ClusterHook /\ inv[p].pc = "done")
                => ClusterSeeded(inv[p].clusterName)
          /\ (inv[p].hook = ProjectHook /\ inv[p].pc = "done")
                => ProjectSeeded(inv[p].obj[1])

\* the hook of cluster c-2 has returned after cluster c-1 and project p-1 were seeded
C5_Witness ==
    /\ \E p \in Procs :
          inv[p].hook = ClusterHook /\ inv[p].pc = "done" /\ inv[p].clusterName = "c-2"
    /\ ClusterSeeded("c-1")
    /\ ClusterSeeded("c-2")
    /\ ProjectSeeded([Namespace |-> "c-1", Name |-> "p-1"])

\* C6: Sync issues the Create of the Windows rule only when the node lister returned a
\* node labelled kubernetes.io/os=windows; a Sync whose lister returned no such node
\* leaves the store as it is and returns its node with a nil error; the Windows rule
\* enters the store by that Create alone.
C6_WindowsRuleOnlyByTrigger ==
    /\ [] (\A p \in Procs :
              (inv[p].hook = SyncHook /\ inv[p].pc \in {"get", "create"})
                  => \E n \in inv[p].windowsNodes :
                        <<"kubernetes.io/os", "windows">> \in n.Labels)
    /\ [] (\A p \in Procs :
              (/\ inv[p].hook = SyncHook /\ inv[p].pc = "done"
               /\ inv[p].listErr = "nil" /\ inv[p].windowsNodes = {})
                  => /\ inv[p].ret = [obj |-> inv[p].obj, err |-> "nil"]
                     /\ inv[p].nGet = 0 /\ inv[p].nCreate = 0)
    /\ [][\A p \in Procs :
             (/\ inv[p].hook = SyncHook /\ inv'[p] # inv[p]
              /\ inv[p].windowsNodes = {} /\ inv'[p].windowsNodes = {})
                 => UNCHANGED storeVars]_vars
    /\ [][\A c \in ClusterNames :
             (~ HasRule(c, WindowsRuleName) /\ Keyed(clusterAlertRules', c, WindowsRuleName) # {})
                 => \E p \in Procs :
                       /\ inv[p].hook = SyncHook /\ inv[p].pc = "create"
                       /\ inv[p].clusterName = c
                       /\ inv[p].windowsNodes # {}]_vars

\* a Sync for the node that carries only the beta label has returned: no node matched
\* the selector and the store holds no Windows rule
C6_Witness ==
    \E p \in Procs :
        /\ inv[p].hook = SyncHook /\ inv[p].pc = "done"
        /\ inv[p].listErr = "nil" /\ inv[p].windowsNodes = {}
        /\ inv[p].obj[1].Name = "beta-node"
        /\ ~ HasRule(inv[p].clusterName, WindowsRuleName)
        /\ ClusterComplete(inv[p].clusterName)

\* C7: with invocations running at once and listers that lag, no key ever carries two
\* objects, no object is written a second time, no invocation logs a warning or
\* returns an error, and a hook that has returned leaves its objects in the store.
C7_ConcurrentSeeding ==
    /\ NoDuplicates
    /\ \A o \in BagToSet(clusterAlertGroups) \cup BagToSet(clusterAlertRules) :
          o.ResourceVersion = 1
    /\ \A o \in BagToSet(projectAlertGroups) \cup BagToSet(projectAlertRules) :
          o.ResourceVersion = 1
    /\ warnings = 0
    /\ \A p \in Procs :
          inv[p].pc = "done" =>
              /\ inv[p].ret.err = "nil"
              /\ inv[p].hook = ClusterHook => ClusterSeeded(inv[p].clusterName)
              /\ inv[p].hook = ProjectHook => ProjectSeeded(inv[p].obj[1])
              /\ (inv[p].hook = SyncHook /\ inv[p].windowsNodes # {})
                    => HasRule(inv[p].clusterName, WindowsRuleName)

\* two Syncs ran at once, both saw NotFound, one created the rule and the other was
\* answered AlreadyExists
C7_Witness ==
    \E p, q \in Procs :
        /\ p # q
        /\ inv[p].hook = SyncHook /\ inv[p].pc = "done" /\ inv[p].createErr = "nil"
        /\ inv[q].hook = SyncHook /\ inv[q].pc = "done"
        /\ inv[q].createErr = "AlreadyExists"

\* the number of groups and rules of the table
TableItems == Cardinality(TableGroupNames) + Cardinality(TableRuleGroups)

\* C8: initClusterPreCanAlerts goes through every item of the table whatever its Gets
\* and Creates answer, and logs each failure; ProjectLifecycle.Create issues its three
\* Creates whatever they answer and returns its project with a nil error; Updated and
\* Remove return their project with a nil error and leave the store as it is.
C8_BestEffort ==
    /\ [] (\A p \in Procs :
              inv[p].pc = "done" =>
                  /\ inv[p].hook = ClusterHook => inv[p].nGet = TableItems
                  /\ inv[p].hook = ProjectHook =>
                        /\ inv[p].nCreate = 3
                        /\ inv[p].ret = [obj |-> inv[p].obj, err |-> "nil"]
                  /\ inv[p].hook \in {"ProjectLifecycle.Updated", "ProjectLifecycle.Remove"}
                        => inv[p].ret = [obj |-> inv[p].obj, err |-> "nil"])
    /\ [][\A p \in Procs :
             (/\ inv[p].hook \in {ClusterHook, ProjectHook}
              /\ inv'[p] # inv[p]
              /\ failures' < failures) => /\ warnings' = warnings + 1
                                          /\ inv'[p].pc # "idle"]_vars
    /\ [][\A p \in Procs :
             (/\ inv'[p] # inv[p]
              /\ \/ inv[p].hook \in {"ProjectLifecycle.Updated", "ProjectLifecycle.Remove"}
                 \/ inv'[p].hook \in {"ProjectLifecycle.Updated", "ProjectLifecycle.Remove"})
                 => UNCHANGED storeVars]_vars

\* initClusterPreCanAlerts has returned after one of its calls failed and was logged
C8_Witness ==
    \E p \in Procs :
        /\ inv[p].hook = ClusterHook /\ inv[p].pc = "done"
        /\ failures < MaxFailures
        /\ warnings > 0
        /\ ~ ClusterComplete(inv[p].clusterName)

\* C9: Sync returns nil and an error, without a Create, when the List fails; an error,
\* without a Create, when a Windows node exists and the Get fails other than with
\* NotFound; an error when the Create fails other than with AlreadyExists; and its
\* node with a nil error in every other case.
C9_SyncReportsFailures ==
    \A p \in Procs :
        (inv[p].hook = SyncHook /\ inv[p].pc = "done") =>
            LET r == inv[p]
                listFailed == r.listErr = "Error"
                getFailed == r.windowsNodes # {} /\ r.err = "Error"
                createFailed == r.createErr = "Error"
            IN  /\ listFailed => /\ r.ret.obj = <<>> /\ r.ret.err # "nil"
                                 /\ r.nGet = 0 /\ r.nCreate = 0
                /\ getFailed => r.ret.err # "nil" /\ r.nCreate = 0
                /\ createFailed => r.ret.err # "nil"
                /\ ~ (listFailed \/ getFailed \/ createFailed)
                      => r.ret = [obj |-> r.obj, err |-> "nil"]
                /\ r.createErr \in {"nil", "AlreadyExists"}
                      => r.ret = [obj |-> r.obj, err |-> "nil"]

\* a Sync that found a Windows node has returned the error of its failed Get
C9_Witness ==
    \E p \in Procs :
        /\ inv[p].hook = SyncHook /\ inv[p].pc = "done"
        /\ inv[p].windowsNodes # {}
        /\ inv[p].err = "Error"
        /\ inv[p].ret.err = "Failed to get alert rules"
        /\ inv[p].nCreate = 0

\* the store holds a group of the rule's cluster that the rule's GroupName identifies
GroupResolves(o) ==
    \E g \in BagToSet(clusterAlertGroups) :
        g.Namespace = o.Namespace /\ GetGroupID(g.Namespace, g.Name) = o.GroupName

\* C11 (as claimed): every cluster alert rule of the store has a GroupName that
\* identifies a group the store holds for the same cluster, and the rule
\* windows-node-disk-running-full is in the store only if the group node-alert of its
\* cluster is.
C11_ReferentialIntegrity ==
    /\ \A o \in BagToSet(clusterAlertRules) : GroupResolves(o)
    /\ \A c \in ClusterNames :
          HasRule(c, WindowsRuleName) => HasGroup(c, nodeAlertGroupName)

\* C11 (what the hooks keep): every cluster alert rule of the store carries its
\* cluster's name and the group ID "<cluster>:<group>" of the table group it belongs
\* to, the Windows rule that of node-alert; the group itself is in the store once an
\* initClusterPreCanAlerts of the cluster has returned and no call was logged as
\* failed.
C11_GroupNameOfTableGroup ==
    /\ \A o \in BagToSet(clusterAlertRules) :
          /\ o.ClusterName = o.Namespace
          /\ \/ /\ o.Name = WindowsRuleName
                /\ o.GroupName = o.Namespace \o ":" \o "node-alert"
             \/ \E rg \in TableRuleGroups :
                   o.Name = rg[1] /\ o.GroupName = o.Namespace \o ":" \o rg[2]
    /\ \A p \in Procs :
          (inv[p].hook = ClusterHook /\ inv[p].pc = "done" /\ warnings = 0)
              => \A o \in BagToSet(clusterAlertRules) :
                    o.Namespace = inv[p].clusterName => GroupResolves(o)

\* Sync has created the Windows rule of a cluster whose group node-alert was never
\* created: the rule's GroupName identifies no group of the store
C11_Witness ==
    \E c \in ClusterNames :
        /\ HasRule(c, WindowsRuleName)
        /\ ~ HasGroup(c, nodeAlertGroupName)
        /\ \E o \in Keyed(clusterAlertRules, c, WindowsRuleName) :
              o.GroupName = c \o ":" \o "node-alert" /\ ~ GroupResolves(o)

====
